---- MODULE Spec2Model ----
(***************************************************************************)
(* A model of torchcde's CDE integration layer (src/torchcde/solver.py):   *)
(* the compatibility check, the vector field adapter, and cdeint itself,   *)
(* one call of it from its entry to its return or its exception.           *)
(*                                                                         *)
(* A tensor is a record [kind |-> "tensor", shape, data]; shape is the     *)
(* sequence of its dimensions and data maps every index (a 0-based         *)
(* sequence) to an integer.  A tuple or list is [kind |-> "tuple", elems]. *)
(* Any other Python object is [kind |-> "other"].                          *)
(***************************************************************************)
EXTENDS Integers, Sequences, FiniteSets, TLC

VARIABLES
    \* ---- the arguments of the call and what the collaborators answer
    method,          \* vector_field_type
    adjoint,         \* adjoint
    X,               \* the control path: its attributes and its buffers
    hasProd,         \* hasattr(func, 'prod')
    z0,              \* z0
    cg0,             \* what X.derivative(t[0]) returns
    sys0,            \* what func(t[0], z0), or func.prod(t[0], z0, cg0), returns
    adjoint_params,  \* kwargs['adjoint_params'], or NoKey
    lenT,            \* len(t)
    seed,            \* selects the numbers X, func and the integrator produce
    \* ---- the call's own state
    pc,              \* where the call is
    exc,             \* the exception that ended it, or NoExc
    is_tensor,       \* line 199
    is_prod,         \* line 199
    gen,             \* _adjoint_params: what the generator has left to yield
    bufIdx,          \* how many buffers the loop of line 207 has taken
    warned,          \* the buffers (by position) warnings.warn was called for
    invoked,         \* the calls made of torchdiffeq.odeint_adjoint / odeint
    rhs,             \* the last evaluation of _VectorField.forward
    nRhs,            \* how many evaluations the integrator has made
    native,          \* what the integrator returned
    out,             \* what cdeint returned
    \* ---- the computation graph of the registry scenario
    nodes,           \* node -> the nodes it was computed from
    attrs            \* the container: name -> node

vars == <<method, adjoint, X, hasProd, z0, cg0, sys0, adjoint_params, lenT, seed,
          pc, exc, is_tensor, is_prod, gen, bufIdx, warned, invoked, rhs, nRhs,
          native, out, nodes, attrs>>

callInputs == <<method, adjoint, X, hasProd, z0, cg0, sys0, adjoint_params, lenT, seed>>
graphVars == <<nodes, attrs>>

----------------------------------------------------------------------------
(* Bounds of the model *)

MaxBatchRank == 1      \* batch dimensions of a tensor: 0..MaxBatchRank
MaxTuple == 2          \* elements of a tuple state: 0..MaxTuple
MaxLenT == 2           \* len(t): 1..MaxLenT
MaxBuffers == 2        \* buffers of X: 0..MaxBuffers
MaxRhs == 2            \* evaluations of the right-hand side per integration
Dims == {1, 2}         \* the sizes a dimension takes

----------------------------------------------------------------------------
(* Values *)

NoExc == "none"
\* kwargs without the key 'adjoint_params', and kwargs with it
NoKey == [given |-> FALSE, ids |-> <<>>]
Given(ids) == [given |-> TRUE, ids |-> ids]
None == [kind |-> "none"]
Other == [kind |-> "other"]

SeqsUpTo(S, n) == UNION {[1..k -> S] : k \in 0..n}


RECURSIVE SeqMax(_)
SeqMax(s) == IF s = <<>> THEN 0
             ELSE LET m == SeqMax(Tail(s)) IN IF Head(s) > m THEN Head(s) ELSE m

\* the indices of a tensor of this shape: 0-based, one entry per dimension
Indices(shape) == {i \in [1..Len(shape) -> 0..(SeqMax(shape) - 1)] :
                     \A k \in 1..Len(shape) : i[k] < shape[k]}

Zeros(shape) == [kind |-> "tensor", shape |-> shape,
                 data |-> [i \in Indices(shape) |-> 0]]
Tuple(elems) == [kind |-> "tuple", elems |-> elems]

IsTensor(v) == v.kind = "tensor"
IsTuple(v) == v.kind = "tuple"

----------------------------------------------------------------------------
(* Python and torch primitives *)

\* s[:-k] of a tuple or torch.Size
DropLast(s, k) == IF Len(s) >= k THEN SubSeq(s, 1, Len(s) - k) ELSE <<>>

\* whether tensor.size(-k) exists; torch raises IndexError when it does not
HasDim(shape, k) == Len(shape) >= k

\* tensor.size(-k), where it exists
Size(shape, k) == shape[Len(shape) - k + 1]

----------------------------------------------------------------------------
(* The compatibility check.  Each operator answers "ok" or the kind of the *)
(* exception the code raises.                                              *)

Passed == "ok"

\* the base check without its comparison of the batch dimensions
BaseUnchecked(control_gradient, z) == IF ~IsTensor(z) THEN "AttributeError" ELSE Passed

\* Anything but a tensor has no attribute 'shape'.
_check_compatability_per_tensor_base(control_gradient, z) ==
    IF ~IsTensor(z) THEN "AttributeError"
    ELSE IF DropLast(control_gradient.shape, 1) # DropLast(z.shape, 1) THEN "ValueError"
    ELSE Passed

\* the forward check without its comparison of the input channels
ForwardInputChannelsUnchecked(control_gradient, system, z) ==
    LET base == _check_compatability_per_tensor_base(control_gradient, z) IN
    IF base # Passed THEN base
    ELSE IF DropLast(system.shape, 2) # DropLast(z.shape, 1) THEN "ValueError"
    ELSE IF ~HasDim(system.shape, 2) \/ ~HasDim(z.shape, 1) THEN "IndexError"
    ELSE IF Size(system.shape, 2) # Size(z.shape, 1) THEN "ValueError"
    ELSE Passed

_check_compatability_per_tensor_forward(control_gradient, system, z) ==
    LET base == _check_compatability_per_tensor_base(control_gradient, z) IN
    IF base # Passed THEN base
    ELSE IF DropLast(system.shape, 2) # DropLast(z.shape, 1) THEN "ValueError"
    ELSE IF ~HasDim(system.shape, 2) \/ ~HasDim(z.shape, 1) THEN "IndexError"
    ELSE IF Size(system.shape, 2) # Size(z.shape, 1) THEN "ValueError"
    ELSE IF ~HasDim(control_gradient.shape, 1) THEN "IndexError"
    ELSE IF Size(system.shape, 1) # Size(control_gradient.shape, 1) THEN "ValueError"
    ELSE Passed

_check_compatability_per_tensor_prod(control_gradient, vector_field, z) ==
    LET base == _check_compatability_per_tensor_base(control_gradient, z) IN
    IF base # Passed THEN base
    ELSE IF vector_field.shape # z.shape THEN "ValueError"
    ELSE Passed

\* the loops of lines 78-83 and 89-94 over zip(control_gradient, field, z0),
\* from element k on: the first exception ends them
RECURSIVE CheckElements(_, _, _, _, _)
CheckElements(control_gradient, field, z, prod, k) ==
    IF k > Len(z.elems) THEN Passed
    ELSE IF ~IsTensor(control_gradient.elems[k]) THEN "ValueError"
    ELSE IF ~IsTensor(field.elems[k]) THEN "ValueError"
    ELSE LET r == IF prod
                  THEN _check_compatability_per_tensor_prod(
                           control_gradient.elems[k], field.elems[k], z.elems[k])
                  ELSE _check_compatability_per_tensor_forward(
                           control_gradient.elems[k], field.elems[k], z.elems[k])
         IN IF r # Passed THEN r
            ELSE CheckElements(control_gradient, field, z, prod, k + 1)

CheckResult(e, t, p) == [exc |-> e, is_tensor |-> t, is_prod |-> p]

\* _check_compatability(X, func, z0, t), given what X.derivative(t[0]) and
\* func / func.prod answer
_check_compatability(x, prod, z, control_gradient, field) ==
    IF ~x.hasDerivative THEN CheckResult("ValueError", FALSE, FALSE)
    ELSE IF IsTensor(z) THEN
        IF ~IsTensor(control_gradient) THEN CheckResult("ValueError", TRUE, prod)
        ELSE IF ~IsTensor(field) THEN CheckResult("ValueError", TRUE, prod)
        ELSE IF prod
        THEN CheckResult(_check_compatability_per_tensor_prod(control_gradient, field, z),
                         TRUE, prod)
        ELSE CheckResult(_check_compatability_per_tensor_forward(control_gradient, field, z),
                         TRUE, prod)
    ELSE IF IsTuple(z) THEN
        IF ~IsTuple(control_gradient) THEN CheckResult("ValueError", FALSE, prod)
        ELSE IF Len(z.elems) # Len(control_gradient.elems)
        THEN CheckResult("ValueError", FALSE, prod)
        ELSE IF ~IsTuple(field) THEN CheckResult("ValueError", FALSE, prod)
        ELSE IF Len(z.elems) # Len(field.elems) THEN CheckResult("ValueError", FALSE, prod)
        ELSE CheckResult(CheckElements(control_gradient, field, z, prod, 1), FALSE, prod)
    ELSE CheckResult("ValueError", FALSE, prod)

----------------------------------------------------------------------------
(* Tensor operations *)

Last(s) == s[Len(s)]

RECURSIVE SumTo(_, _)
\* f[0] + ... + f[n-1]
SumTo(f, n) == IF n = 0 THEN 0 ELSE SumTo(f, n - 1) + f[n - 1]

\* a.unsqueeze(-1)
Unsqueeze(a) ==
    LET shape == a.shape \o <<1>> IN
    [kind |-> "tensor", shape |-> shape,
     data |-> [i \in Indices(shape) |-> a.data[DropLast(i, 1)]]]

\* a.squeeze(-1): drops the last dimension when its size is 1
Squeeze(a) ==
    IF HasDim(a.shape, 1) /\ Last(a.shape) = 1
    THEN LET shape == DropLast(a.shape, 1) IN
         [kind |-> "tensor", shape |-> shape,
          data |-> [i \in Indices(shape) |-> a.data[i \o <<0>>]]]
    ELSE a

Max(a, b) == IF a > b THEN a ELSE b

\* a shape padded with 1s on the left to n dimensions
PadLeft(shape, n) ==
    [k \in 1..n |-> IF k <= n - Len(shape) THEN 1 ELSE shape[k - (n - Len(shape))]]

\* torch's broadcasting of two batch shapes
Broadcastable(x, y) ==
    LET n == Max(Len(x), Len(y)) IN
    \A k \in 1..n : \/ PadLeft(x, n)[k] = PadLeft(y, n)[k]
                    \/ PadLeft(x, n)[k] = 1
                    \/ PadLeft(y, n)[k] = 1
Broadcast(x, y) ==
    LET n == Max(Len(x), Len(y)) IN
    [k \in 1..n |-> Max(PadLeft(x, n)[k], PadLeft(y, n)[k])]

\* the index into an operand of batch shape `shape` that the index bi into
\* the broadcast batch reads
BatchIndex(bi, shape) ==
    [k \in 1..Len(shape) |-> IF shape[k] = 1 THEN 0 ELSE bi[k + Len(bi) - Len(shape)]]

\* torch.matmul's view of its operands: a 1-D left operand is a row, a 1-D
\* right operand a column
AsMatrixShape(shape, left) ==
    IF Len(shape) = 1 THEN (IF left THEN <<1, shape[1]>> ELSE <<shape[1], 1>>) ELSE shape

\* a @ b raises a RuntimeError for a 0-D operand, for inner dimensions that
\* differ and for batch dimensions that do not broadcast
MatMulError(a, b) ==
    IF ~HasDim(a.shape, 1) \/ ~HasDim(b.shape, 1) THEN "RuntimeError"
    ELSE LET sa == AsMatrixShape(a.shape, TRUE)
             sb == AsMatrixShape(b.shape, FALSE)
         IN IF Last(sa) # Size(sb, 2) THEN "RuntimeError"
            ELSE IF ~Broadcastable(DropLast(sa, 2), DropLast(sb, 2)) THEN "RuntimeError"
            ELSE NoExc

\* a @ b (torch.matmul), where it raises nothing
MatMul(a, b) ==
    LET a1 == Len(a.shape) = 1
        b1 == Len(b.shape) = 1
        sa == AsMatrixShape(a.shape, TRUE)
        sb == AsMatrixShape(b.shape, FALSE)
        batch == Broadcast(DropLast(sa, 2), DropLast(sb, 2))
        inner == Last(sa)
        shape == batch \o (IF a1 THEN <<>> ELSE <<Size(sa, 2)>>)
                       \o (IF b1 THEN <<>> ELSE <<Last(sb)>>)
        nb == Len(batch)
    IN [kind |-> "tensor", shape |-> shape,
        data |-> [i \in Indices(shape) |->
                    LET bi == SubSeq(i, 1, nb)
                        row == IF a1 THEN 0 ELSE i[nb + 1]
                        col == IF b1 THEN 0 ELSE i[Len(i)]
                        ia(k) == IF a1 THEN <<k>>
                                 ELSE BatchIndex(bi, DropLast(sa, 2)) \o <<row, k>>
                        ib(k) == IF b1 THEN <<k>>
                                 ELSE BatchIndex(bi, DropLast(sb, 2)) \o <<k, col>>
                    IN SumTo([k \in 0..(inner - 1) |-> a.data[ia(k)] * b.data[ib(k)]],
                             inner)]]

\* torch.cat([a, b], -1): a TypeError unless both are tensors, a RuntimeError
\* unless they agree on every dimension but the last
CatError(a, b) ==
    IF ~IsTensor(a) \/ ~IsTensor(b) THEN "TypeError"
    ELSE IF ~HasDim(a.shape, 1) \/ ~HasDim(b.shape, 1) THEN "RuntimeError"
    ELSE IF DropLast(a.shape, 1) # DropLast(b.shape, 1) THEN "RuntimeError"
    ELSE NoExc

Cat(a, b) ==
    LET na == Last(a.shape)
        shape == DropLast(a.shape, 1) \o <<na + Last(b.shape)>>
    IN [kind |-> "tensor", shape |-> shape,
        data |-> [i \in Indices(shape) |->
                    IF Last(i) < na THEN a.data[i]
                    ELSE b.data[DropLast(i, 1) \o <<Last(i) - na>>]]]

\* PermuteArgs leaving the sequence dimension first
PermuteArgsSequenceFirst(rank) == [k \in 1..rank |-> k - 1]

\* the dimensions of out.permute(*range(1, len(out.shape) - 1), 0, -1)
PermuteArgs(rank) == [k \in 1..(IF rank >= 2 THEN rank - 2 ELSE 0) |-> k] \o <<0, -1>>

\* a dimension as torch reads it: a negative one counts from the end
WrapDim(d, rank) == IF d < 0 THEN d + rank ELSE d

\* torch raises a RuntimeError unless dims names every dimension once
PermuteError(a, dims) ==
    LET rank == Len(a.shape) IN
    IF Len(dims) # rank
       \/ {WrapDim(dims[k], rank) : k \in 1..Len(dims)} # 0..(rank - 1)
    THEN "RuntimeError" ELSE NoExc

\* a.permute(*dims): dimension k of the result is dimension dims[k] of a
Permute(a, dims) ==
    LET rank == Len(a.shape)
        shape == [k \in 1..rank |-> a.shape[WrapDim(dims[k], rank) + 1]]
    IN [kind |-> "tensor", shape |-> shape,
        data |-> [i \in Indices(shape) |->
                    a.data[[d \in 1..rank |->
                              i[CHOOSE k \in 1..rank : WrapDim(dims[k], rank) + 1 = d]]]]]

----------------------------------------------------------------------------
(* What the collaborators answer.  X, func and the integrator are outside  *)
(* the repository: the shapes of their answers at t[0] are inputs of the   *)
(* call (cg0, sys0), and the numbers they produce are drawn from seed.     *)

RECURSIVE Weigh(_)
\* a number that tells the indices of a tensor apart
Weigh(i) == IF i = <<>> THEN 0 ELSE Head(i) + 3 * Weigh(Tail(i))

\* v with its tensors' entries replaced by numbers in -1..1 drawn from salt
Fill(v, salt) ==
    LET T(w, n) == [kind |-> "tensor", shape |-> w.shape,
                    data |-> [i \in Indices(w.shape) |-> ((salt + n + Weigh(i)) % 3) - 1]]
    IN IF IsTensor(v) THEN T(v, 0)
       ELSE IF IsTuple(v)
       THEN Tuple([k \in 1..Len(v.elems) |->
                     IF IsTensor(v.elems[k]) THEN T(v.elems[k], k) ELSE v.elems[k]])
       ELSE v

\* X.derivative(t), X.evaluate(t): of the shape X.derivative(t[0]) had
XDerivative(t) == Fill(cg0, seed + t + 1)
XEvaluate(t) == Fill(cg0, seed + 2 * t)

\* func(t, z) and func.prod(t, z, dXdt) for a z of z0's shape: of the shape
\* they had at t[0]
FuncOf(t) == Fill(sys0, seed + 2 * t + 1)

\* func(t, torch.cat([z, data], -1)): func was only ever seen on an input of
\* z0's shape, so on the wider input it may answer a tensor of either shape
CatAnswers(t) == {Fill(z0, seed + t), FuncOf(t)}

\* the state the integrator evaluates the right-hand side at: of z0's shape
StateAt(n) == Fill(z0, seed + n)

\* what the integrator returns for one component of the state: a tensor of
\* shape (len(t), batch..., hidden_channels), every entry a different number
NativeOf(component, k) ==
    LET shape == <<lenT>> \o component.shape IN
    [kind |-> "tensor", shape |-> shape,
     data |-> [i \in Indices(shape) |-> 100 * k + Weigh(i)]]

NativeOut == IF IsTensor(z0) THEN NativeOf(z0, 0)
             ELSE Tuple([k \in 1..Len(z0.elems) |-> NativeOf(z0.elems[k], k)])

----------------------------------------------------------------------------
(* _VectorField.forward *)

Min(a, b) == IF a < b THEN a ELSE b

\* arg is what func was called on where forward builds its input (line 125)
Result(e, o, c) == [exc |-> e, out |-> o, calls |-> c, arg |-> None]

\* (vector_field @ control_gradient.unsqueeze(-1)).squeeze(-1)
ContractError(vector_field, control_gradient) ==
    IF ~IsTensor(vector_field) \/ ~IsTensor(control_gradient) THEN "TypeError"
    ELSE MatMulError(vector_field, Unsqueeze(control_gradient))
\* the contraction without the final squeeze
ContractUnsqueezed(vector_field, control_gradient) ==
    MatMul(vector_field, Unsqueeze(control_gradient))

Contract(vector_field, control_gradient) ==
    Squeeze(MatMul(vector_field, Unsqueeze(control_gradient)))

\* the generator of lines 135-136 over zip(vector_field, control_gradient),
\* from pair k on: the first exception ends it
RECURSIVE ContractErrorFrom(_, _, _)
ContractErrorFrom(vector_field, control_gradient, k) ==
    IF k > Min(Len(vector_field.elems), Len(control_gradient.elems)) THEN NoExc
    ELSE IF ContractError(vector_field.elems[k], control_gradient.elems[k]) # NoExc
    THEN ContractError(vector_field.elems[k], control_gradient.elems[k])
    ELSE ContractErrorFrom(vector_field, control_gradient, k + 1)

\* forward without the guard of line 117: the shortcut is used in every mode
forwardShortcutAnyMode(field, t, z, ans) ==
    IF field.is_prod THEN Result(NoExc, ans.prod, <<"derivative", "prod">>)
    ELSE Result(NoExc, ans.func, <<"derivative", "func">>)

\* forward fetching X.evaluate in every mode
forwardFetchesEvaluate(field, t, z, ans) ==
    IF ~field.X.hasEvaluate THEN Result("AttributeError", None, <<"derivative">>)
    ELSE Result(NoExc, ans.prod, <<"derivative", "evaluate">>)

\* field is the _VectorField; ans holds what X.derivative(t), X.evaluate(t),
\* func(t, z), func(t, func_inputs) and func.prod(t, z, dXdt) answer.
\* calls lists the collaborators' calls and the matrix multiplies, in order.
forward(field, t, z, ans) ==
    LET control_gradient == ans.derivative IN
    IF field.is_prod
    THEN IF field.method # "matmul"
         THEN Result("NotImplementedError", None, <<"derivative">>)
         ELSE Result(NoExc, ans.prod, <<"derivative", "prod">>)
    ELSE IF field.method \in {"evaluate", "derivative"}
    THEN IF field.method = "evaluate" /\ ~field.X.hasEvaluate
         THEN Result("AttributeError", None, <<"derivative">>)
         ELSE LET data == IF field.method = "evaluate" THEN ans.evaluate ELSE ans.derivative
              IN IF CatError(z, data) # NoExc
                 THEN Result(CatError(z, data), None, <<"derivative", field.method>>)
                 ELSE [Result(NoExc, ans.cat_func, <<"derivative", field.method, "func">>)
                         EXCEPT !.arg = Cat(z, data)]
    ELSE LET vector_field == ans.func IN
         IF field.is_tensor
         THEN IF ContractError(vector_field, control_gradient) # NoExc
              THEN Result(ContractError(vector_field, control_gradient), None,
                          <<"derivative", "func", "matmul">>)
              ELSE Result(NoExc, Contract(vector_field, control_gradient),
                          <<"derivative", "func", "matmul">>)
         ELSE IF ~IsTuple(vector_field) \/ ~IsTuple(control_gradient)
         THEN Result("TypeError", None, <<"derivative", "func">>)
         ELSE LET n == Min(Len(vector_field.elems), Len(control_gradient.elems)) IN
              IF ContractErrorFrom(vector_field, control_gradient, 1) # NoExc
              THEN Result(ContractErrorFrom(vector_field, control_gradient, 1), None,
                          <<"derivative", "func", "matmul">>)
              ELSE Result(NoExc,
                          Tuple([k \in 1..n |->
                                   Contract(vector_field.elems[k], control_gradient.elems[k])]),
                          <<"derivative", "func">> \o [k \in 1..n |-> "matmul"])

----------------------------------------------------------------------------
(* cdeint *)

Methods == {"matmul", "evaluate", "derivative"}

Raised(kind, at) == [kind |-> kind, at |-> at]

\* the exception leaves cdeint: nothing is returned
Throw(kind, at) ==
    /\ pc' = "raised"
    /\ exc' = Raised(kind, at)

\* `x in g` for a generator g with items left to yield: the test draws
\* items until one equals x, and leaves the generator after that item
GenFinds(items, x) == \E k \in 1..Len(items) : items[k] = x
GenAfter(items, x) ==
    IF GenFinds(items, x)
    THEN LET k == CHOOSE j \in 1..Len(items) :
                      items[j] = x /\ \A m \in 1..(j - 1) : items[m] # x
         IN SubSeq(items, k + 1, Len(items))
    ELSE <<>>

\* the permutation of lines 227-236 of what the integrator returned: the
\* first component that cannot be permuted raises
RECURSIVE PermuteErrorFrom(_, _)
PermuteErrorFrom(elems, k) ==
    IF k > Len(elems) THEN NoExc
    ELSE IF PermuteError(elems[k], PermuteArgs(Len(elems[k].shape))) # NoExc
    THEN PermuteError(elems[k], PermuteArgs(Len(elems[k].shape)))
    ELSE PermuteErrorFrom(elems, k + 1)

PermuteOne(o) == Permute(o, PermuteArgs(Len(o.shape)))

Reshaped(o, tensor) ==
    IF tensor THEN PermuteOne(o)
    ELSE Tuple([k \in 1..Len(o.elems) |-> PermuteOne(o.elems[k])])

ReshapeError(o, tensor) ==
    IF tensor THEN PermuteError(o, PermuteArgs(Len(o.shape)))
    ELSE PermuteErrorFrom(o.elems, 1)

\* lines 190-191 (the tolerances of lines 194-197 only add keys to kwargs)
ValidateMode ==
    /\ pc = "validate"
    /\ IF method \notin Methods
       THEN Throw("ValueError", "mode")
       ELSE pc' = "check" /\ exc' = exc
    /\ UNCHANGED <<callInputs, is_tensor, is_prod, gen, bufIdx, warned, invoked, rhs,
                   nRhs, native, out, graphVars>>

\* line 199
CheckCompatability ==
    /\ pc = "check"
    /\ LET r == _check_compatability(X, hasProd, z0, cg0, sys0) IN
       IF r.exc # Passed
       THEN Throw(r.exc, "check") /\ UNCHANGED <<is_tensor, is_prod>>
       ELSE /\ is_tensor' = r.is_tensor
            /\ is_prod' = r.is_prod
            /\ pc' = "adjoint"
            /\ exc' = exc
    /\ UNCHANGED <<callInputs, gen, bufIdx, warned, invoked, rhs, nRhs, native, out,
                   graphVars>>

\* lines 201-205
AdjointParams ==
    /\ pc = "adjoint"
    /\ IF adjoint
       THEN /\ gen' = IF adjoint_params.given THEN adjoint_params.ids ELSE <<>>
            /\ pc' = "buffers"
       ELSE /\ gen' = gen
            /\ pc' = "invoke"
    /\ UNCHANGED <<callInputs, exc, is_tensor, is_prod, bufIdx, warned, invoked, rhs,
                   nRhs, native, out, graphVars>>

\* ShouldWarn with the membership test inverted
ShouldWarnListed(buffer, items) == buffer.requires_grad /\ GenFinds(items, buffer.id)

\* line 209: `and` evaluates the membership test, which draws from the
\* generator, only for a buffer that requires gradients
ShouldWarn(buffer, items) == buffer.requires_grad /\ ~GenFinds(items, buffer.id)
GenLeft(buffer, items) == IF buffer.requires_grad THEN GenAfter(items, buffer.id) ELSE items

\* lines 207-221: X.buffers(), then one buffer of the loop
BufferLoop ==
    /\ pc = "buffers"
    /\ IF ~X.hasBuffers
       THEN Throw("AttributeError", "buffers") /\ UNCHANGED <<gen, bufIdx, warned>>
       ELSE IF bufIdx = Len(X.buffers)
       THEN pc' = "invoke" /\ UNCHANGED <<exc, gen, bufIdx, warned>>
       ELSE LET buffer == X.buffers[bufIdx + 1] IN
            /\ bufIdx' = bufIdx + 1
            /\ gen' = GenLeft(buffer, gen)
            /\ warned' = IF ShouldWarn(buffer, gen) THEN Append(warned, bufIdx + 1)
                         ELSE warned
            /\ UNCHANGED <<pc, exc>>
    /\ UNCHANGED <<callInputs, is_tensor, is_prod, invoked, rhs, nRhs, native, out,
                   graphVars>>

\* Integrator ignoring the caller's choice
IntegratorAlwaysAdjoint(adj) == "odeint_adjoint"

\* line 224: the integrator cdeint calls
Integrator(adj) == IF adj THEN "odeint_adjoint" ELSE "odeint"

\* lines 223-225: the call of the integrator
InvokeOdeint ==
    /\ pc = "invoke"
    /\ invoked' = Append(invoked, Integrator(adjoint))
    /\ pc' = "integrating"
    /\ UNCHANGED <<callInputs, exc, is_tensor, is_prod, gen, bufIdx, warned, rhs, nRhs,
                   native, out, graphVars>>

VectorField == [X |-> X, is_tensor |-> is_tensor, is_prod |-> is_prod, method |-> method]

\* the integrator evaluates the right-hand side; what forward raises leaves
\* the integrator and cdeint
OdeintEvaluates ==
    /\ pc = "integrating"
    /\ nRhs < MaxRhs
    /\ \E answer \in CatAnswers(nRhs) :
         LET t == nRhs
             z == StateAt(nRhs)
             ans == [derivative |-> XDerivative(t), evaluate |-> XEvaluate(t),
                     func |-> FuncOf(t), prod |-> FuncOf(t), cat_func |-> answer]
             r == forward(VectorField, t, z, ans)
         IN /\ rhs' = [t |-> t, z |-> z, ans |-> ans, exc |-> r.exc, out |-> r.out,
                       calls |-> r.calls, arg |-> r.arg]
            /\ IF r.exc # NoExc
               THEN Throw(r.exc, "rhs")
               ELSE UNCHANGED <<pc, exc>>
    /\ nRhs' = nRhs + 1
    /\ UNCHANGED <<callInputs, is_tensor, is_prod, gen, bufIdx, warned, invoked, native,
                   out, graphVars>>

\* the integrator returns the trajectory in its own layout
OdeintReturns ==
    /\ pc = "integrating"
    /\ native' = NativeOut
    /\ pc' = "permute"
    /\ UNCHANGED <<callInputs, exc, is_tensor, is_prod, gen, bufIdx, warned, invoked, rhs,
                   nRhs, out, graphVars>>

\* lines 227-238
PermuteAndReturn ==
    /\ pc = "permute"
    /\ IF ReshapeError(native, is_tensor) # NoExc
       THEN Throw(ReshapeError(native, is_tensor), "permute") /\ out' = out
       ELSE /\ out' = Reshaped(native, is_tensor)
            /\ pc' = "done"
            /\ exc' = exc
    /\ UNCHANGED <<callInputs, is_tensor, is_prod, gen, bufIdx, warned, invoked, rhs,
                   nRhs, native, graphVars>>

Next ==
    \/ ValidateMode
    \/ CheckCompatability
    \/ AdjointParams
    \/ BufferLoop
    \/ InvokeOdeint
    \/ OdeintEvaluates
    \/ OdeintReturns
    \/ PermuteAndReturn

----------------------------------------------------------------------------
(* The gradient-isolation registry.  nodes is torch's computation graph:   *)
(* node k holds the data it carries, the operation that made it and the    *)
(* nodes that operation read (its inbound edges).  attrs is the container. *)

MaxNodes == 6
Names == {"variable", "variable2"}

Node(op, from, data, requires_grad, source) ==
    [op |-> op, from |-> from, data |-> data, requires_grad |-> requires_grad,
     source |-> source]

\* the nodes a backward pass from y reaches: y and all it was computed from
RECURSIVE Reaches(_, _)
Reaches(g, y) == {y} \cup UNION {Reaches(g, p) : p \in g[y].from}

\* torch.autograd.grad(y, x, allow_unused=True)[0]: None when x is not in
\* the graph of y
Grad(g, y, x) == IF x \in Reaches(g, y) THEN "tensor" ELSE "None"

\* a plain assignment: the value itself, still wired to its producers
RegisteredAliased(g, value) ==
    Node("register", {value}, g[value].data, g[value].requires_grad, value)

\* register(container, name, value): a copy with the same data and no
\* inbound edges, that tracks gradients itself
Registered(g, value) ==
    Node("register", {}, g[value].data, g[value].requires_grad, value)

\* torch.rand(3, requires_grad=True)
Rand ==
    /\ Len(nodes) < MaxNodes
    /\ nodes' = Append(nodes, Node("rand", {}, Len(nodes) + 1, TRUE, 0))
    /\ UNCHANGED attrs

\* value.clone()
Clone ==
    /\ Len(nodes) < MaxNodes
    /\ \E v \in 1..Len(nodes) :
         nodes' = Append(nodes, Node("clone", {v}, nodes[v].data,
                                     nodes[v].requires_grad, 0))
    /\ UNCHANGED attrs

\* value.sum()
Sum ==
    /\ Len(nodes) < MaxNodes
    /\ \E v \in 1..Len(nodes) :
         nodes' = Append(nodes, Node("sum", {v}, <<"sum", nodes[v].data>>,
                                     nodes[v].requires_grad, 0))
    /\ UNCHANGED attrs

\* register_computed_parameter(self, name, value)
Register ==
    /\ Len(nodes) < MaxNodes
    /\ \E v \in 1..Len(nodes) : \E name \in Names \ DOMAIN attrs :
         /\ nodes' = Append(nodes, Registered(nodes, v))
         /\ attrs' = [n \in DOMAIN attrs \cup {name} |->
                        IF n = name THEN Len(nodes) + 1 ELSE attrs[n]]

----------------------------------------------------------------------------
(* The calls the model makes *)

NoException == Raised(NoExc, "none")

\* the state of a call at its entry
Entry ==
    /\ pc = "validate"
    /\ exc = NoException
    /\ is_tensor = FALSE
    /\ is_prod = FALSE
    /\ gen = <<>>
    /\ bufIdx = 0
    /\ warned = <<>>
    /\ invoked = <<>>
    /\ rhs = None
    /\ nRhs = 0
    /\ native = None
    /\ out = None

NoGraph ==
    /\ nodes = <<>>
    /\ attrs = <<>>

\* the buffers X.buffers() yields: buffer k has identity k
BufferLists == UNION {[1..n -> [id : {0}, requires_grad : BOOLEAN]] : n \in 0..MaxBuffers}
Identified(bs) == [k \in 1..Len(bs) |-> [id |-> k, requires_grad |-> bs[k].requires_grad]]

ControlPath(d, e, b, bs) ==
    [hasDerivative |-> d, hasEvaluate |-> e, hasBuffers |-> b, buffers |-> bs]

\* well-formed shapes: a state of shape (batch..., hidden), a control
\* gradient of shape (batch..., input) and a field answering
\* (batch..., hidden, input), or (batch..., hidden) through prod
WellFormedTensors(prod, maxBatch) ==
    {<<Zeros(b \o <<h>>), Zeros(b \o <<i>>),
       Zeros(IF prod THEN b \o <<h>> ELSE b \o <<h, i>>)>> :
        <<b, h, i>> \in SeqsUpTo(Dims, maxBatch) \X Dims \X Dims}

WellFormedTuples(prod) ==
    {<<Tuple([k \in 1..Len(c) |-> c[k][1]]), Tuple([k \in 1..Len(c) |-> c[k][2]]),
       Tuple([k \in 1..Len(c) |-> c[k][3]])>> :
        c \in SeqsUpTo(WellFormedTensors(prod, 0), MaxTuple)}

WellFormed(prod) == WellFormedTensors(prod, MaxBatchRank) \cup WellFormedTuples(prod)

\* every combination of tensors; every combination of tuples of unbatched
\* tensors and other objects; and the combinations of different structures
TensorCases ==
    {Zeros(sh) : sh \in SeqsUpTo(Dims, MaxBatchRank + 1)}
    \X {Zeros(sh) : sh \in SeqsUpTo(Dims, MaxBatchRank + 1)}
    \X {Zeros(sh) : sh \in SeqsUpTo(Dims, MaxBatchRank + 2)}
TupleCases ==
    {Tuple(e) : e \in SeqsUpTo({Zeros(<<2>>), Other}, MaxTuple)}
    \X {Tuple(e) : e \in SeqsUpTo({Zeros(<<2>>), Other}, MaxTuple)}
    \X {Tuple(e) : e \in SeqsUpTo({Zeros(<<2>>), Zeros(<<2, 1>>), Zeros(<<2, 2>>), Other},
                                  MaxTuple)}
MixedCases ==
    {c \in {Zeros(<<2>>), Tuple(<<Zeros(<<2>>)>>), Other}
           \X {Zeros(<<2>>), Tuple(<<Zeros(<<2>>)>>), Other}
           \X {Zeros(<<2>>), Zeros(<<2, 2>>), Tuple(<<Zeros(<<2>>)>>),
               Tuple(<<Zeros(<<2, 2>>)>>), Other} :
        ~(c[1].kind = c[2].kind /\ c[2].kind = c[3].kind /\ c[1].kind # "other")}
ShapeCases == TensorCases \cup TupleCases \cup MixedCases

OneBuffer == <<[id |-> 1, requires_grad |-> TRUE]>>

\* the calls of Spec: well-formed shapes, in every mode and with every
\* capability of X and func
Init ==
    /\ Entry
    /\ NoGraph
    /\ method \in Methods \cup {"other"}
    /\ adjoint \in BOOLEAN
    /\ hasProd \in BOOLEAN
    /\ \E c \in WellFormed(hasProd) : z0 = c[1] /\ cg0 = c[2] /\ sys0 = c[3]
    /\ X \in {ControlPath(TRUE, e, b, OneBuffer) : e \in BOOLEAN, b \in BOOLEAN}
    /\ adjoint_params = NoKey
    /\ lenT \in 1..MaxLenT
    /\ seed = 0

Spec == Init /\ [][Next]_vars

\* the calls of SpecShapes: every combination of shapes and structures, in
\* every mode
InitShapes ==
    /\ Entry
    /\ NoGraph
    /\ method \in Methods \cup {"other"}
    /\ adjoint \in BOOLEAN
    /\ hasProd \in BOOLEAN
    /\ \E c \in ShapeCases : z0 = c[1] /\ cg0 = c[2] /\ sys0 = c[3]
    /\ X \in {ControlPath(d, TRUE, TRUE, OneBuffer) : d \in BOOLEAN}
    /\ adjoint_params = NoKey
    /\ lenT = 1
    /\ seed = 0

SpecShapes == InitShapes /\ [][Next]_vars

\* the calls of SpecAdjoint: every list of buffers and of adjoint_params
\* (identity 0 is a parameter that is no buffer of X)
InitAdjoint ==
    /\ Entry
    /\ NoGraph
    /\ method = "matmul"
    /\ adjoint \in BOOLEAN
    /\ hasProd = FALSE
    /\ \E c \in WellFormedTensors(FALSE, 0) : z0 = c[1] /\ cg0 = c[2] /\ sys0 = c[3]
    /\ X \in {ControlPath(TRUE, TRUE, TRUE, Identified(bs)) : bs \in BufferLists}
    /\ adjoint_params \in {NoKey} \cup {Given(ids) : ids \in SeqsUpTo(0..MaxBuffers, MaxBuffers)}
    /\ lenT = 1
    /\ seed = 0

SpecAdjoint == InitAdjoint /\ [][Next]_vars

Seeds == {0, 1, 2}

\* the calls of SpecRhs: well-formed shapes, with every choice of the
\* numbers X and func produce
InitRhs ==
    /\ Entry
    /\ NoGraph
    /\ method \in Methods
    /\ adjoint = TRUE
    /\ hasProd \in BOOLEAN
    /\ \E c \in WellFormed(hasProd) : z0 = c[1] /\ cg0 = c[2] /\ sys0 = c[3]
    /\ X \in {ControlPath(TRUE, e, TRUE, OneBuffer) : e \in BOOLEAN}
    /\ adjoint_params = NoKey
    /\ lenT = 1
    /\ seed \in Seeds

SpecRhs == InitRhs /\ [][Next]_vars

----------------------------------------------------------------------------
(* Properties *)

Ended == pc \in {"done", "raised"}
IntegratorReached == pc \in {"integrating", "permute", "done"} \/ exc.at \in {"rhs", "permute"}

\* every component of z0 is a tensor with a channel dimension
Components(v) == IF IsTensor(v) THEN <<v>> ELSE IF IsTuple(v) THEN v.elems ELSE <<>>
HasChannels(z) ==
    /\ IsTensor(z) \/ IsTuple(z)
    /\ \A k \in 1..Len(Components(z)) :
         IsTensor(Components(z)[k]) /\ HasDim(Components(z)[k].shape, 1)

\* o is n with its first dimension moved to the second-to-last place, for
\* a component z of the initial state
PublicLayout(o, n, z) ==
    LET batch == DropLast(z.shape, 1)
        hidden == Last(z.shape)
    IN /\ n.shape = <<lenT>> \o batch \o <<hidden>>
       /\ o.kind = "tensor"
       /\ o.shape = batch \o <<lenT, hidden>>
       /\ \A b \in Indices(batch) : \A i \in 0..(lenT - 1) : \A h \in 0..(hidden - 1) :
            o.data[b \o <<i, h>>] = n.data[<<i>> \o b \o <<h>>]

\* C1: whenever a call whose state components all have a channel dimension
\* returns, the value returned is the integrator's output with the
\* sequence dimension moved from first to second-to-last, out[b..., i, h] =
\* native[i, b..., h]; a tuple state gives a tuple of as many such
\* elements; and the reshaping itself never raises for such a call.
C1_PublicLayout ==
    HasChannels(z0) =>
        /\ exc.at # "permute"
        /\ pc = "done" =>
             IF IsTensor(z0) THEN PublicLayout(out, native, z0)
             ELSE /\ out.kind = "tuple"
                  /\ Len(out.elems) = Len(z0.elems)
                  /\ \A k \in 1..Len(z0.elems) :
                       PublicLayout(out.elems[k], native.elems[k], z0.elems[k])

C1_Witness ==
    /\ pc = "done"
    /\ IsTensor(z0)
    /\ z0.shape = <<1, 2>>
    /\ lenT = 2
    /\ out.shape = <<1, 2, 2>>

\* what C2 lists, read off the inputs, for one component
ComponentError(z, g, f) ==
    IsTensor(z) /\ IsTensor(g) /\ IsTensor(f) /\
        \/ DropLast(g.shape, 1) # DropLast(z.shape, 1)
        \/ /\ ~hasProd
           /\ \/ Len(f.shape) >= 2 /\ Len(z.shape) >= 1 /\ f.shape[Len(f.shape) - 1] # Last(z.shape)
              \/ Len(f.shape) >= 1 /\ Len(g.shape) >= 1 /\ Last(f.shape) # Last(g.shape)
        \/ hasProd /\ f.shape # z.shape

ListedError ==
    \/ method \notin {"matmul", "evaluate", "derivative"}
    \/ ~X.hasDerivative
    \/ IsTensor(z0) /\ (~IsTensor(cg0) \/ ~IsTensor(sys0))
    \/ IsTuple(z0) /\ (~IsTuple(cg0) \/ ~IsTuple(sys0))
    \/ /\ IsTuple(z0) /\ IsTuple(cg0) /\ IsTuple(sys0)
       /\ \/ Len(z0.elems) # Len(cg0.elems)
          \/ Len(z0.elems) # Len(sys0.elems)
          \/ \E k \in 1..Len(z0.elems) :
               ComponentError(z0.elems[k], cg0.elems[k], sys0.elems[k])
    \/ ComponentError(z0, cg0, sys0)

\* C2: a call whose inputs hold one of the listed errors never gets past
\* the compatibility check: it is validating, checking or has raised, no
\* integrator was invoked and nothing was returned.
C2_RaisesBeforeIntegration ==
    ListedError =>
        /\ pc \in {"validate", "check", "raised"}
        /\ pc = "raised" => exc.at \in {"mode", "check"}
        /\ invoked = <<>>
        /\ nRhs = 0
        /\ native = None
        /\ out = None

C2_Witness ==
    /\ pc = "raised"
    /\ exc.at = "check"
    /\ method = "evaluate"
    /\ adjoint
    /\ hasProd
    /\ IsTensor(z0) /\ IsTensor(cg0) /\ IsTensor(sys0)
    /\ DropLast(cg0.shape, 1) = DropLast(z0.shape, 1)
    /\ sys0.shape # z0.shape

\* tensors of any rank, or tuples of such tensors
TensorOrTensors(v) ==
    \/ IsTensor(v)
    \/ IsTuple(v) /\ \A k \in 1..Len(v.elems) : IsTensor(v.elems[k])

\* C3: every rejection by the mode validation and the compatibility check
\* of inputs that are tensors, or tuples of tensors, is a ValueError.
C3_OnlyValueError ==
    /\ TensorOrTensors(z0) /\ TensorOrTensors(cg0) /\ TensorOrTensors(sys0)
    /\ pc = "raised"
    /\ exc.at \in {"mode", "check"}
    => exc.kind = "ValueError"

ShortcutOutsideMatmul == method \in {"evaluate", "derivative"} /\ hasProd

\* C4 as stated: with the shortcut in 'evaluate' or 'derivative' mode, no
\* integrator is ever invoked and no trajectory is returned.
C4_RejectedBeforeIntegration ==
    ShortcutOutsideMatmul => invoked = <<>> /\ native = None /\ out = None

\* C4, amended: with the shortcut in 'evaluate' or 'derivative' mode the
\* mode validation and the compatibility check reject nothing that they
\* accept in 'matmul' mode, the integrator is invoked, and it is the
\* adapter that raises, a NotImplementedError at the first evaluation of
\* the right-hand side, which ends the call without a trajectory.
C4_RaisedByAdapter ==
    ShortcutOutsideMatmul =>
        /\ exc.at \notin {"mode", "check"}
        /\ nRhs > 0 =>
             /\ pc = "raised"
             /\ exc = Raised("NotImplementedError", "rhs")
             /\ nRhs = 1
             /\ Len(invoked) = 1
             /\ native = None
             /\ out = None
        /\ exc.kind = "NotImplementedError" => exc.at = "rhs"

C4_Witness ==
    /\ ShortcutOutsideMatmul
    /\ exc = Raised("NotImplementedError", "rhs")
    /\ Len(invoked) = 1

ChecksPassed == pc \notin {"validate", "check"} /\ exc.at \notin {"mode", "check"}

\* C5 as stated: a call that passed the mode validation and the
\* compatibility check ends with exactly one invocation, of the integrator
\* that adjoint selects.
C5_OneIntegratorOnce ==
    Ended /\ ChecksPassed =>
        invoked = <<IF adjoint THEN "odeint_adjoint" ELSE "odeint">>

\* C5, amended: a call that passed the mode validation and the
\* compatibility check and, when adjoint is true, whose X has buffers(),
\* ends with exactly one invocation, of odeint_adjoint if adjoint is true
\* and of odeint if it is false; no call ever invokes the other one or
\* invokes twice.
C5_OneIntegratorOnceGivenBuffers ==
    /\ invoked \in {<<>>, <<IF adjoint THEN "odeint_adjoint" ELSE "odeint">>}
    /\ IntegratorReached => Len(invoked) = 1
    /\ Ended /\ ChecksPassed /\ (adjoint => X.hasBuffers) => Len(invoked) = 1

C5_Witness ==
    /\ pc = "done"
    /\ adjoint
    /\ invoked = <<"odeint_adjoint">>

\* the buffers of X that require gradients and are not among adjoint_params
Undeclared ==
    {k \in 1..Len(X.buffers) :
        /\ X.buffers[k].requires_grad
        /\ \A j \in 1..Len(adjoint_params.ids) : adjoint_params.ids[j] # X.buffers[k].id}

Range(q) == {q[k] : k \in 1..Len(q)}

\* C6: with adjoint, each buffer of X that requires gradients and is not
\* among adjoint_params has been warned about, once, when the loop has
\* passed it; no warning ends the call: after the loop the integrator is
\* invoked and the call returns a trajectory.
C6_WarnsEveryUndeclared ==
    adjoint =>
        /\ \A k \in Undeclared : k <= bufIdx => k \in Range(warned)
        /\ \A i, j \in 1..Len(warned) : warned[i] = warned[j] => i = j
        /\ pc \notin {"validate", "check", "adjoint", "buffers"} =>
             /\ bufIdx = Len(X.buffers)
             /\ Undeclared \subseteq Range(warned)
        /\ warned # <<>> => pc # "raised"
        /\ pc = "done" => Len(invoked) = 1 /\ out.kind = "tensor"

C6_Witness ==
    /\ pc = "done"
    /\ adjoint
    /\ Len(X.buffers) = 2
    /\ adjoint_params = Given(<<1>>)
    /\ warned = <<2>>
    /\ out.kind = "tensor"

BarePath == X.hasDerivative /\ ~X.hasEvaluate /\ ~X.hasBuffers /\ method = "matmul"

\* C7 as stated: a control path with derivative but neither evaluate nor
\* buffers, in 'matmul' mode with well-formed inputs, never makes the call
\* raise.
C7_BarePathNeverRaises == BarePath => pc # "raised"

\* C7, amended: in 'matmul' mode with well-formed inputs a control path
\* without evaluate never makes the call raise if it has buffers() or
\* adjoint is false; without buffers() and with adjoint true the call
\* raises an AttributeError after the compatibility check and before any
\* integrator is invoked.
C7_BarePathNeedsBuffersForAdjoint ==
    X.hasDerivative /\ ~X.hasEvaluate /\ method = "matmul" =>
        /\ X.hasBuffers \/ ~adjoint => pc # "raised"
        /\ ~X.hasBuffers /\ adjoint =>
             /\ pc \in {"validate", "check", "adjoint", "buffers", "raised"}
             /\ pc = "raised" => exc = Raised("AttributeError", "buffers")
             /\ invoked = <<>>
             /\ out = None

C7_Witness ==
    /\ BarePath
    /\ ~adjoint
    /\ pc = "done"
    /\ nRhs > 0

C7_WitnessRaise ==
    /\ BarePath
    /\ adjoint
    /\ exc = Raised("AttributeError", "buffers")

\* the conditions of C9 on one component, read off the shapes
Front(shape, n) == [k \in 1..n |-> shape[k]]
ComponentCompatible(z, g, f) ==
    /\ IsTensor(z) /\ IsTensor(g) /\ IsTensor(f)
    /\ Front(g.shape, Max(Len(g.shape) - 1, 0)) = Front(z.shape, Max(Len(z.shape) - 1, 0))
    /\ IF hasProd THEN f.shape = z.shape
       ELSE /\ Len(f.shape) >= 2 /\ Len(z.shape) >= 1 /\ Len(g.shape) >= 1
            /\ Front(f.shape, Len(f.shape) - 2) = Front(z.shape, Len(z.shape) - 1)
            /\ f.shape[Len(f.shape) - 1] = z.shape[Len(z.shape)]
            /\ f.shape[Len(f.shape)] = g.shape[Len(g.shape)]

Compatible ==
    /\ X.hasDerivative
    /\ \/ ComponentCompatible(z0, cg0, sys0)
       \/ /\ IsTuple(z0) /\ IsTuple(cg0) /\ IsTuple(sys0)
          /\ Len(cg0.elems) = Len(z0.elems)
          /\ Len(sys0.elems) = Len(z0.elems)
          /\ \A k \in 1..Len(z0.elems) :
               ComponentCompatible(z0.elems[k], cg0.elems[k], sys0.elems[k])

CheckDone == pc \notin {"validate", "check"} /\ exc.at # "mode"

\* C9: once the compatibility check has run it has raised unless X has
\* derivative, the three values share one structure and every component
\* agrees on batch shape and channels (or, with prod, on the whole shape);
\* and when it has not raised, is_tensor tells whether z0 is a single
\* tensor and is_prod whether func has prod.
C9_CheckSucceedsIffCompatible ==
    CheckDone =>
        /\ exc.at # "check" <=> Compatible
        /\ exc.at # "check" => is_tensor = IsTensor(z0) /\ is_prod = hasProd

C9_Witness ==
    /\ pc = "adjoint"
    /\ IsTuple(z0)
    /\ Len(z0.elems) = 2
    /\ ~hasProd
    /\ ~is_tensor
    /\ ~is_prod

RECURSIVE Dot(_, _, _, _, _)
\* f[b..., h, 0] * g[b..., 0] + ... + f[b..., h, n-1] * g[b..., n-1]
Dot(f, g, b, h, n) ==
    IF n = 0 THEN 0
    ELSE Dot(f, g, b, h, n - 1) + f.data[b \o <<h, n - 1>>] * g.data[b \o <<n - 1>>]

\* o is the contraction of f with g over the input dimension, of z's shape
Contraction(o, f, g, z) ==
    /\ o.kind = "tensor"
    /\ o.shape = z.shape
    /\ \A b \in Indices(DropLast(z.shape, 1)) : \A h \in 0..(Last(z.shape) - 1) :
         o.data[b \o <<h>>] = Dot(f, g, b, h, Last(g.shape))

Count(q, x) == Cardinality({k \in 1..Len(q) : q[k] = x})

\* C10: in 'matmul' mode an evaluation of the right-hand side raises
\* nothing; without the shortcut it calls func once and returns the
\* contraction over the input dimension of what func answered with what
\* X.derivative answered, for a tuple state one contraction per element in
\* a tuple of the same length; with the shortcut it returns what func.prod
\* answered, calling neither func nor a matrix multiply.
C10_MatmulRhs ==
    nRhs > 0 /\ method = "matmul" =>
        /\ rhs.exc = NoExc
        /\ Count(rhs.calls, "derivative") = 1
        /\ IF hasProd
           THEN /\ rhs.out = rhs.ans.prod
                /\ rhs.calls = <<"derivative", "prod">>
           ELSE /\ Count(rhs.calls, "func") = 1
                /\ Count(rhs.calls, "prod") = 0
                /\ IF IsTensor(z0)
                   THEN Contraction(rhs.out, rhs.ans.func, rhs.ans.derivative, rhs.z)
                   ELSE /\ rhs.out.kind = "tuple"
                        /\ Len(rhs.out.elems) = Len(rhs.z.elems)
                        /\ \A k \in 1..Len(rhs.z.elems) :
                             Contraction(rhs.out.elems[k], rhs.ans.func.elems[k],
                                         rhs.ans.derivative.elems[k], rhs.z.elems[k])

C10_Witness ==
    /\ nRhs > 0
    /\ method = "matmul"
    /\ ~hasProd
    /\ IsTensor(z0)
    /\ z0.shape = <<2, 2>>
    /\ cg0.shape = <<2, 2>>
    /\ \E i \in DOMAIN rhs.out.data : rhs.out.data[i] # 0

C10_WitnessShortcut ==
    /\ nRhs > 0
    /\ method = "matmul"
    /\ hasProd
    /\ IsTuple(z0)
    /\ Len(z0.elems) = 2
    /\ rhs.out = rhs.ans.prod

\* c is z with d appended along the last dimension
Concatenation(c, z, d) ==
    /\ IsTensor(c) /\ IsTensor(z) /\ IsTensor(d)
    /\ c.shape = DropLast(z.shape, 1) \o <<Last(z.shape) + Last(d.shape)>>
    /\ \A i \in Indices(z.shape) : c.data[i] = z.data[i]
    /\ \A i \in Indices(d.shape) :
         c.data[DropLast(i, 1) \o <<Last(z.shape) + Last(i)>>] = d.data[i]

\* the concatenation of a state with the data of the path: of the tensors,
\* or element by element of the tuples
ConcatenationOf(c, z, d) ==
    IF IsTensor(z) THEN Concatenation(c, z, d)
    ELSE /\ IsTuple(c) /\ IsTuple(z) /\ IsTuple(d)
         /\ Len(c.elems) = Len(z.elems)
         /\ \A k \in 1..Len(z.elems) : Concatenation(c.elems[k], z.elems[k], d.elems[k])

SameStructure(a, b) ==
    IF IsTensor(b) THEN IsTensor(a) /\ a.shape = b.shape
    ELSE /\ IsTuple(a) /\ IsTuple(b)
         /\ Len(a.elems) = Len(b.elems)
         /\ \A k \in 1..Len(b.elems) :
              IsTensor(a.elems[k]) /\ a.elems[k].shape = b.elems[k].shape

\* the data of the path the mode names
ModeData == IF method = "evaluate" THEN rhs.ans.evaluate ELSE rhs.ans.derivative

ConcatMode ==
    /\ method \in {"evaluate", "derivative"}
    /\ ~hasProd
    /\ method = "evaluate" => X.hasEvaluate

\* what C11 says of one evaluation of the right-hand side
ConcatRhs ==
    /\ rhs.exc = NoExc
    /\ rhs.calls = <<"derivative", method, "func">>
    /\ ConcatenationOf(rhs.arg, rhs.z, ModeData)
    /\ rhs.out = rhs.ans.cat_func
    /\ SameStructure(rhs.ans.cat_func, rhs.z) => SameStructure(rhs.out, rhs.z)

\* C11 as stated: in 'evaluate' and 'derivative' mode, for a tensor state
\* and a tuple state alike, an evaluation of the right-hand side of a call
\* that passed the compatibility check raises nothing, calls func once on
\* the concatenation along the last dimension of the state with
\* X.evaluate(t), respectively X.derivative(t), and returns what func
\* answered, of the state's structure whenever func answers so.
C11_ConcatRhsUniform ==
    nRhs > 0 /\ ConcatMode => ConcatRhs

\* the part of C11 the code keeps: the same for a tensor state only
C11_ConcatRhsSingleState ==
    nRhs > 0 /\ ConcatMode /\ IsTensor(z0) => ConcatRhs

\* a tuple state whose right-hand side raised in torch.cat
C11_TupleRaises ==
    /\ nRhs > 0
    /\ ConcatMode
    /\ IsTuple(z0)
    /\ Len(z0.elems) = 2
    /\ exc = Raised("TypeError", "rhs")

\* the warnings given for a buffer that is among adjoint_params
Spurious ==
    {k \in Range(warned) :
        \E j \in 1..Len(adjoint_params.ids) : adjoint_params.ids[j] = X.buffers[k].id}

\* C12 as stated: with adjoint, no warning is given for a buffer of X whose
\* identity is among adjoint_params, whatever the number of buffers and the
\* order of adjoint_params; when every buffer that requires gradients is
\* listed there is no warning at all.
C12_NoSpuriousWarning ==
    adjoint =>
        /\ Spurious = {}
        /\ Undeclared = {} => warned = <<>>

\* the part of C12 the code keeps: no warning at all when every buffer
\* that requires gradients is listed and adjoint_params lists identities in
\* the order X enumerates its buffers
InBufferOrder ==
    \A i, j \in 1..Len(adjoint_params.ids) :
        i < j => adjoint_params.ids[i] < adjoint_params.ids[j]

C12_NoSpuriousWarningInOrder ==
    adjoint /\ InBufferOrder /\ Undeclared = {} => warned = <<>>

\* a warning for the second buffer, listed before the first
C12_WarnsListed ==
    /\ pc = "done"
    /\ adjoint
    /\ Len(X.buffers) = 2
    /\ adjoint_params = Given(<<2, 1>>)
    /\ warned = <<2>>

----------------------------------------------------------------------------
(* The registry scenario: no call of cdeint is in progress *)

NoCall ==
    /\ Entry
    /\ method = "matmul"
    /\ adjoint = FALSE
    /\ hasProd = FALSE
    /\ z0 = None
    /\ cg0 = None
    /\ sys0 = None
    /\ X = ControlPath(TRUE, TRUE, TRUE, <<>>)
    /\ adjoint_params = NoKey
    /\ lenT = 1
    /\ seed = 0

InitRegister ==
    /\ NoCall
    /\ nodes = <<>>
    /\ attrs = <<>>

callVars == <<callInputs, pc, exc, is_tensor, is_prod, gen, bufIdx, warned, invoked, rhs,
              nRhs, native, out>>

NextRegister ==
    \/ Rand /\ UNCHANGED callVars
    \/ Clone /\ UNCHANGED callVars
    \/ Sum /\ UNCHANGED callVars
    \/ Register /\ UNCHANGED callVars

SpecRegister == InitRegister /\ [][NextRegister]_vars

\* B was registered from a clone of A
RegisteredFromCloneOf(b, a) ==
    /\ nodes[b].op = "register"
    /\ nodes[nodes[b].source].op = "clone"
    /\ nodes[nodes[b].source].from = {a}

\* C8: when attribute B of the container was registered from a clone of
\* attribute A, the graph holds no path between them: differentiating
\* anything computed from B with respect to A gives None, and anything
\* computed from A with respect to B gives None; and every registered
\* value holds the data of the value it was registered from.
C8_GradientIsolation ==
    /\ \A a, b \in DOMAIN attrs :
         RegisteredFromCloneOf(attrs[b], attrs[a]) =>
            /\ attrs[a] \notin Reaches(nodes, attrs[b])
            /\ attrs[b] \notin Reaches(nodes, attrs[a])
            /\ \A y \in 1..Len(nodes) :
                 /\ attrs[b] \in Reaches(nodes, y) => Grad(nodes, y, attrs[a]) = "None"
                 /\ attrs[a] \in Reaches(nodes, y) => Grad(nodes, y, attrs[b]) = "None"
    /\ \A n \in 1..Len(nodes) :
         nodes[n].op = "register" => nodes[n].data = nodes[nodes[n].source].data

\* the scenario of test_computed_parameter, up to the first gradient
C8_Witness ==
    /\ DOMAIN attrs = {"variable", "variable2"}
    /\ RegisteredFromCloneOf(attrs["variable2"], attrs["variable"])
    /\ nodes[attrs["variable"]].op = "register"
    /\ nodes[nodes[attrs["variable"]].source].op = "clone"
    /\ \E x \in nodes[nodes[attrs["variable"]].source].from :
         nodes[x].op = "rand" /\ nodes[x].requires_grad
    /\ \E y \in 1..Len(nodes) :
         /\ nodes[y].op = "sum"
         /\ nodes[y].from = {attrs["variable2"]}
         /\ Grad(nodes, y, attrs["variable"]) = "None"

====
